---- MODULE Spec2Model ----
(***************************************************************************)
(* A model of pathplan/path_planner_numpy.py: the slope smoother           *)
(* smooth_line, the path builder gen_path / gen_segment and the grid       *)
(* traversal raster_line.  Each function is a sequential program; its      *)
(* loops are unrolled into one action per iteration, and an uncaught       *)
(* Python exception is the state pc = "error" with err naming it.          *)
(*                                                                         *)
(* Arithmetic is exact.  Altitudes are held in units of 1/Unit, where Unit *)
(* is a common multiple of every possible gap between two peak indices, so *)
(* that the true division of line 213 is an exact integer division here.   *)
(***************************************************************************)
EXTENDS Integers, Sequences, FiniteSets

VARIABLES
  pc, err,
  \* smooth_line
  points, max_height_diff, new_points, peaks, peak_inds, slopes, going_up, i, j,
  \* gen_path and gen_segment
  waypoints, wi, x_points, y_points, z_points, seg_x, seg_y, seg_z, cur_x, cur_y, curr_dist,
  \* raster_line
  wp0, wp1, rl_points, rl_x, rl_y, ix, iy

commonVars == <<pc, err>>

smoothVars == <<points, max_height_diff, new_points, peaks, peak_inds, slopes, going_up, i, j>>

pathVars == <<waypoints, wi, x_points, y_points, z_points, seg_x, seg_y, seg_z, cur_x, cur_y, curr_dist>>

lineVars == <<wp0, wp1, rl_points, rl_x, rl_y, ix, iy>>

vars == <<commonVars, smoothVars, pathVars, lineVars>>

(***************************************************************************)
(* Bounds of the model.                                                    *)
(***************************************************************************)
MaxLen == 5
MaxH == 3
RasterW == 2
RasterH == 2
MaxWaypoints == 3
MaxCoord == 7

(***************************************************************************)
(* Configuration of the program (lines 21-22): PATH_SPACING = 0.5 is the    *)
(* fraction SpacingNum / SpacingDen.                                       *)
(***************************************************************************)
HEIGHT_TOL == 3
SpacingNum == 1
SpacingDen == 2

(***************************************************************************)
(* Helpers: Python's 0-based list indexing over TLA+ sequences.            *)
(***************************************************************************)
At(s, k) == s[k + 1]

Put(s, k, v) == [s EXCEPT ![k + 1] = v]

Pop(s) == SubSeq(s, 1, Len(s) - 1)

Last(s) == s[Len(s)]

Abs(a) == IF a < 0 THEN -a ELSE a

RECURSIVE Gcd(_, _)
Gcd(a, b) == IF b = 0 THEN a ELSE Gcd(b, a % b)

RECURSIVE LcmUpTo(_)
LcmUpTo(n) == IF n <= 1 THEN 1 ELSE LET l == LcmUpTo(n - 1) IN (l * n) \div Gcd(l, n)

\* One altitude unit, in the model's integer representation.
Unit == 2 * LcmUpTo(MaxLen - 1)

Altitudes == {Unit * h : h \in 0..MaxH}

MaxHeightDiffs == {Unit \div 4, Unit, 2 * Unit}

SeqsUpTo(S, n) == UNION {[1..m -> S] : m \in 0..n}


(***************************************************************************)
(* The variables of the functions a specification does not run.            *)
(***************************************************************************)
SmoothIdle ==
  /\ points = <<>> /\ max_height_diff = 0 /\ new_points = <<>> /\ peaks = <<>>
  /\ peak_inds = <<>> /\ slopes = <<>> /\ going_up = FALSE /\ i = 0 /\ j = -1

PathIdle ==
  /\ waypoints = <<>> /\ wi = 0 /\ x_points = <<>> /\ y_points = <<>> /\ z_points = <<>>
  /\ seg_x = <<>> /\ seg_y = <<>> /\ seg_z = <<>> /\ cur_x = 0 /\ cur_y = 0 /\ curr_dist = 0

LineIdle ==
  /\ wp0 = <<0, 0>> /\ wp1 = <<0, 0>> /\ rl_points = <<>> /\ rl_x = 0 /\ rl_y = 0
  /\ ix = 0 /\ iy = 0

(***************************************************************************)
(* smooth_line(points, max_height_diff)                                     *)
(***************************************************************************)

\* Line 213: the slope between peak k-1 and peak k (0-based k >= 1).
Slope(pk, inds, k) == (At(pk, k) - At(pk, k - 1)) \div (At(inds, k) - At(inds, k - 1))

\* Lines 212-214: a zero gap between two peak indices is a division by zero.
SlopesDivZero(inds) == \E k \in 1..(Len(inds) - 1) : At(inds, k) = At(inds, k - 1)

ComputeSlopes(pk, inds) == [k \in 1..(Len(pk) - 1) |-> Slope(pk, inds, k)]

\* The forward pass without its cap: the interval's own slope is always applied.
FwdCandidateUncapped(slope, prev, mhd) == prev + slope

\* Lines 229-236: the value the forward pass wants at j, given its predecessor.
FwdCandidate(slope, prev, mhd) == IF slope < mhd * (-1) THEN prev - mhd ELSE prev + slope

\* The backward pass with the sign of the slope term flipped.
BwdCandidatePlus(slope, next, mhd) == IF slope > mhd THEN next - mhd ELSE next + slope

\* Lines 250-257: the value the backward pass wants at j, given its successor.
BwdCandidate(slope, next, mhd) == IF slope > mhd THEN next - mhd ELSE next - slope

\* The write without its gate: the candidate is stored whatever the sample holds.
GateDropped(cand, cur) == cand

\* Lines 231-232, 235-236, 252-253, 256-257: write only what raises the sample.
Gate(cand, cur) == IF cand > cur THEN cand ELSE cur

\* Lines 173-183: copy the input, seed the peak list with points[0].
SmoothStart ==
  /\ pc = "start"
  /\ new_points' = points
  /\ going_up' = FALSE
  /\ slopes' = <<>>
  /\ IF Len(points) = 0
       THEN /\ pc' = "error" /\ err' = "IndexError"
            /\ UNCHANGED <<peaks, peak_inds, i>>
       ELSE /\ peaks' = <<At(points, 0)>>
            /\ peak_inds' = <<0>>
            /\ i' = 1
            /\ pc' = "peaks" /\ err' = err
  /\ UNCHANGED <<points, max_height_diff, j, pathVars, lineVars>>

\* Lines 188-200: a rising step replaces the last peak or records a new one.
PeakRise ==
  /\ pc = "peaks" /\ i < Len(points) - 1
  /\ At(points, i) > At(points, i - 1)
  /\ IF going_up
       THEN /\ peaks' = Append(Pop(peaks), At(points, i))
            /\ peak_inds' = Append(Pop(peak_inds), i)
            /\ going_up' = going_up
       ELSE /\ going_up' = TRUE
            /\ peaks' = Append(peaks, At(points, i))
            /\ peak_inds' = Append(peak_inds, i)
  /\ i' = i + 1
  /\ UNCHANGED <<commonVars, points, max_height_diff, new_points, slopes, j, pathVars, lineVars>>

\* Lines 202-203: a falling step ends the rise.
PeakFall ==
  /\ pc = "peaks" /\ i < Len(points) - 1
  /\ ~(At(points, i) > At(points, i - 1))
  /\ At(points, i) < At(points, i - 1)
  /\ going_up' = FALSE
  /\ i' = i + 1
  /\ UNCHANGED <<commonVars, points, max_height_diff, new_points, peaks, peak_inds, slopes, j,
                 pathVars, lineVars>>

\* A flat step that ends the rise (the comparison <= in place of <).
FlatFlagCleared(g) == FALSE

\* The flag a flat step leaves behind: neither branch of lines 188-203 is taken.
FlatFlag(g) == g

\* Lines 185-203: a flat step takes neither branch.
PeakFlat ==
  /\ pc = "peaks" /\ i < Len(points) - 1
  /\ ~(At(points, i) > At(points, i - 1))
  /\ ~(At(points, i) < At(points, i - 1))
  /\ going_up' = FlatFlag(going_up)
  /\ i' = i + 1
  /\ UNCHANGED <<commonVars, points, max_height_diff, new_points, peaks, peak_inds, slopes, j,
                 pathVars, lineVars>>

\* Lines 205-206: the last sample is the final peak.
PeakEnd ==
  /\ pc = "peaks" /\ ~(i < Len(points) - 1)
  /\ peaks' = Append(peaks, At(points, Len(points) - 1))
  /\ peak_inds' = Append(peak_inds, Len(points) - 1)
  /\ pc' = "slopes"
  /\ UNCHANGED <<err, points, max_height_diff, new_points, slopes, going_up, i, j,
                 pathVars, lineVars>>

\* Lines 212-214: the slopes between consecutive peaks.
SlopesStep ==
  /\ pc = "slopes"
  /\ IF SlopesDivZero(peak_inds)
       THEN /\ pc' = "error" /\ err' = "ZeroDivisionError"
            /\ UNCHANGED <<slopes, i>>
       ELSE /\ slopes' = ComputeSlopes(peaks, peak_inds)
            /\ i' = 0
            /\ pc' = "fwd" /\ err' = err
  /\ UNCHANGED <<points, max_height_diff, new_points, peaks, peak_inds, going_up, j,
                 pathVars, lineVars>>

\* Lines 220-222: a non-negative slope is skipped by the forward pass.
FwdSkip ==
  /\ pc = "fwd" /\ j = -1 /\ i < Len(slopes)
  /\ At(slopes, i) >= 0
  /\ i' = i + 1
  /\ UNCHANGED <<commonVars, points, max_height_diff, new_points, peaks, peak_inds, slopes,
                 going_up, j, pathVars, lineVars>>

\* Lines 224-227: enter the walk over a descending interval.
FwdEnter ==
  /\ pc = "fwd" /\ j = -1 /\ i < Len(slopes)
  /\ ~(At(slopes, i) >= 0)
  /\ j' = At(peak_inds, i) + 1
  /\ UNCHANGED <<commonVars, points, max_height_diff, new_points, peaks, peak_inds, slopes,
                 going_up, i, pathVars, lineVars>>

\* Lines 227-236: one sample of a descending interval.
FwdBody ==
  /\ pc = "fwd" /\ j # -1
  /\ new_points' = Put(new_points, j,
        Gate(FwdCandidate(At(slopes, i), At(new_points, j - 1), max_height_diff),
             At(new_points, j)))
  /\ IF j + 1 < At(peak_inds, i + 1) + 1
       THEN /\ j' = j + 1 /\ i' = i
       ELSE /\ j' = -1 /\ i' = i + 1
  /\ UNCHANGED <<commonVars, points, max_height_diff, peaks, peak_inds, slopes, going_up,
                 pathVars, lineVars>>

\* Lines 220, 240: the forward pass is over; the backward pass starts at the last slope.
FwdEnd ==
  /\ pc = "fwd" /\ j = -1 /\ ~(i < Len(slopes))
  /\ pc' = "bwd"
  /\ i' = Len(slopes) - 1
  /\ UNCHANGED <<err, points, max_height_diff, new_points, peaks, peak_inds, slopes,
                 going_up, j, pathVars, lineVars>>

\* Lines 240-242: a negative slope is skipped by the backward pass.
BwdSkip ==
  /\ pc = "bwd" /\ j = -1 /\ i >= 0
  /\ At(slopes, i) < 0
  /\ i' = i - 1
  /\ UNCHANGED <<commonVars, points, max_height_diff, new_points, peaks, peak_inds, slopes,
                 going_up, j, pathVars, lineVars>>

\* Lines 244-248: enter the walk over an ascending interval, from its right end.
BwdEnter ==
  /\ pc = "bwd" /\ j = -1 /\ i >= 0
  /\ ~(At(slopes, i) < 0)
  /\ j' = At(peak_inds, i + 1) - 1
  /\ UNCHANGED <<commonVars, points, max_height_diff, new_points, peaks, peak_inds, slopes,
                 going_up, i, pathVars, lineVars>>

\* Lines 248-257: one sample of an ascending interval.
BwdBody ==
  /\ pc = "bwd" /\ j # -1
  /\ new_points' = Put(new_points, j,
        Gate(BwdCandidate(At(slopes, i), At(new_points, j + 1), max_height_diff),
             At(new_points, j)))
  /\ IF j - 1 >= At(peak_inds, i)
       THEN /\ j' = j - 1 /\ i' = i
       ELSE /\ j' = -1 /\ i' = i - 1
  /\ UNCHANGED <<commonVars, points, max_height_diff, peaks, peak_inds, slopes, going_up,
                 pathVars, lineVars>>

\* Line 259: return new_points.
SmoothReturn ==
  /\ pc = "bwd" /\ j = -1 /\ ~(i >= 0)
  /\ pc' = "done"
  /\ UNCHANGED <<err, smoothVars, pathVars, lineVars>>

InitSmooth ==
  /\ pc = "start" /\ err = "none"
  /\ points \in SeqsUpTo(Altitudes, MaxLen)
  /\ max_height_diff \in MaxHeightDiffs
  /\ new_points = <<>> /\ peaks = <<>> /\ peak_inds = <<>> /\ slopes = <<>>
  /\ going_up = FALSE /\ i = 0 /\ j = -1
  /\ PathIdle /\ LineIdle

NextSmooth ==
  \/ SmoothStart
  \/ PeakRise
  \/ PeakFall
  \/ PeakFlat
  \/ PeakEnd
  \/ SlopesStep
  \/ FwdSkip
  \/ FwdEnter
  \/ FwdBody
  \/ FwdEnd
  \/ BwdSkip
  \/ BwdEnter
  \/ BwdBody
  \/ SmoothReturn

SpecSmooth == InitSmooth /\ [][NextSmooth]_vars


(***************************************************************************)
(* gen_path(surface_raster, waypoints) and gen_segment(surface_raster,     *)
(* wp0, wp1).                                                              *)
(*                                                                         *)
(* A coordinate along a segment is src + k * delta * PATH_SPACING /        *)
(* seg_dist, where seg_dist is a square root.  It is held exactly as the   *)
(* record [b, n, q] that stands for b + n / sqrt(q).                       *)
(***************************************************************************)

\* The elevation raster: row = y, column = x, every cell a different height.
surface_raster == [r \in 0..(RasterH - 1) |-> [c \in 0..(RasterW - 1) |-> r * RasterW + c]]

InRaster == {<<x, y>> : x \in 0..(RasterW - 1), y \in 0..(RasterH - 1)}

\* Waypoints one cell off each edge of the raster.
Outside == {<<-1, 0>>, <<RasterW, 0>>, <<0, -1>>, <<0, RasterH>>}

Exact(v) == [b |-> v, n |-> 0, q |-> 1]

\* The largest m with m <= |n| / sqrt(q).
FloorFrac(c) ==
  CHOOSE m \in 0..Abs(c.n) : m * m * c.q <= c.n * c.n /\ (m + 1) * (m + 1) * c.q > c.n * c.n

\* The smallest m with m >= |n| / sqrt(q).
CeilFrac(c) ==
  CHOOSE m \in 0..Abs(c.n) : m * m * c.q >= c.n * c.n /\ (m = 0 \/ (m - 1) * (m - 1) * c.q < c.n * c.n)

Floor(c) == IF c.n >= 0 THEN c.b + FloorFrac(c) ELSE c.b - CeilFrac(c)

Ceiling(c) == IF c.n >= 0 THEN c.b + CeilFrac(c) ELSE c.b - FloorFrac(c)

\* Lines 91, 103: int() truncates toward zero.
Trunc(c) == IF Floor(c) >= 0 THEN Floor(c) ELSE Ceiling(c)

\* Lines 91, 103: an index at or past the length, or below minus the length, faults.
IndexFault(len, k) == k >= len \/ k < -len

\* Lines 91, 103: a negative index in range counts from the end.
PyIndex(len, k) == IF k < 0 THEN k + len ELSE k

SampleFault(cx, cy) == IndexFault(RasterH, Trunc(cy)) \/ IndexFault(RasterW, Trunc(cx))

\* Lines 86-91, 99-103: the height read under (x, y), plus the clearance.
Sample(cx, cy) ==
  surface_raster[PyIndex(RasterH, Trunc(cy))][PyIndex(RasterW, Trunc(cx))] + HEIGHT_TOL

\* Lines 60-68 for the segment from waypoint w to waypoint w+1 (0-based).
SrcX(w) == At(waypoints, w)[1]

SrcY(w) == At(waypoints, w)[2]

DestX(w) == At(waypoints, w + 1)[1]

DestY(w) == At(waypoints, w + 1)[2]

DeltaX(w) == DestX(w) - SrcX(w)

DeltaY(w) == DestY(w) - SrcY(w)

\* Line 68: seg_dist squared.
SegDist2(w) == DeltaX(w) * DeltaX(w) + DeltaY(w) * DeltaY(w)

\* The loop guard with <= in place of <.
SegContinueLe(k, w) == k * k * SpacingNum * SpacingNum <= SpacingDen * SpacingDen * SegDist2(w)

\* Line 84: curr_dist < seg_dist, where curr_dist = k * PATH_SPACING.
SegContinue(k, w) == k * k * SpacingNum * SpacingNum < SpacingDen * SpacingDen * SegDist2(w)

\* Lines 94-95: x += delta * PATH_SPACING / seg_dist.
Advance(c, delta, w) ==
  IF delta = 0 THEN c
  ELSE [b |-> c.b, n |-> c.n + delta * SpacingNum, q |-> SpacingDen * SpacingDen * SegDist2(w)]

\* Extending the path by a segment without its first point when the path is not empty.
ExtendDedup(path, seg) == IF path = <<>> THEN seg ELSE path \o Tail(seg)

\* Lines 44-46: list.extend.
Extend(path, seg) == path \o seg

\* Lines 35-40: fewer than two waypoints give the empty path.
PathStart ==
  /\ pc = "start"
  /\ x_points' = <<>> /\ y_points' = <<>> /\ z_points' = <<>>
  /\ wi' = 0
  /\ pc' = IF Len(waypoints) < 2 THEN "done" ELSE "path_loop"
  /\ UNCHANGED <<err, waypoints, seg_x, seg_y, seg_z, cur_x, cur_y, curr_dist, smoothVars, lineVars>>

\* Lines 42-43, 60-81: call gen_segment on the next pair of waypoints.
SegCall ==
  /\ pc = "path_loop" /\ wi < Len(waypoints) - 1
  /\ curr_dist' = 0
  /\ cur_x' = Exact(SrcX(wi))
  /\ cur_y' = Exact(SrcY(wi))
  /\ seg_x' = <<>> /\ seg_y' = <<>> /\ seg_z' = <<>>
  /\ pc' = "seg_loop"
  /\ UNCHANGED <<err, waypoints, wi, x_points, y_points, z_points, smoothVars, lineVars>>

\* Lines 84-96: one sample of the segment.
SegStep ==
  /\ pc = "seg_loop" /\ SegContinue(curr_dist, wi)
  /\ IF SampleFault(cur_x, cur_y)
       THEN /\ pc' = "error" /\ err' = "IndexError"
            /\ seg_x' = Append(seg_x, cur_x)
            /\ seg_y' = Append(seg_y, cur_y)
            /\ UNCHANGED <<seg_z, cur_x, cur_y, curr_dist>>
       ELSE /\ seg_x' = Append(seg_x, cur_x)
            /\ seg_y' = Append(seg_y, cur_y)
            /\ seg_z' = Append(seg_z, Sample(cur_x, cur_y))
            /\ cur_x' = Advance(cur_x, DeltaX(wi), wi)
            /\ cur_y' = Advance(cur_y, DeltaY(wi), wi)
            /\ curr_dist' = curr_dist + 1
            /\ UNCHANGED <<pc, err>>
  /\ UNCHANGED <<waypoints, wi, x_points, y_points, z_points, smoothVars, lineVars>>

\* Lines 98-106, 44-46: the destination is appended, the segment returned and the
\* path extended by it.
SegFinish ==
  /\ pc = "seg_loop" /\ ~SegContinue(curr_dist, wi)
  /\ seg_x' = Append(seg_x, Exact(DestX(wi)))
  /\ seg_y' = Append(seg_y, Exact(DestY(wi)))
  /\ IF SampleFault(Exact(DestX(wi)), Exact(DestY(wi)))
       THEN /\ pc' = "error" /\ err' = "IndexError"
            /\ UNCHANGED <<seg_z, x_points, y_points, z_points, wi>>
       ELSE /\ seg_z' = Append(seg_z, Sample(Exact(DestX(wi)), Exact(DestY(wi))))
            /\ x_points' = Extend(x_points, seg_x')
            /\ y_points' = Extend(y_points, seg_y')
            /\ z_points' = Extend(z_points, seg_z')
            /\ wi' = wi + 1
            /\ pc' = "path_loop" /\ err' = err
  /\ UNCHANGED <<waypoints, cur_x, cur_y, curr_dist, smoothVars, lineVars>>

\* Line 49: return the path.
PathReturn ==
  /\ pc = "path_loop" /\ ~(wi < Len(waypoints) - 1)
  /\ pc' = "done"
  /\ UNCHANGED <<err, pathVars, smoothVars, lineVars>>

InitPath ==
  /\ pc = "start" /\ err = "none"
  /\ waypoints \in SeqsUpTo(InRaster \cup Outside, MaxWaypoints)
  /\ wi = 0 /\ x_points = <<>> /\ y_points = <<>> /\ z_points = <<>>
  /\ seg_x = <<>> /\ seg_y = <<>> /\ seg_z = <<>> /\ cur_x = 0 /\ cur_y = 0 /\ curr_dist = 0
  /\ SmoothIdle /\ LineIdle

NextPath ==
  \/ PathStart
  \/ SegCall
  \/ SegStep
  \/ SegFinish
  \/ PathReturn

SpecPath == InitPath /\ [][NextPath]_vars

(***************************************************************************)
(* raster_line(wp0, wp1)                                                   *)
(***************************************************************************)

\* Lines 125-126, 132-133: the absolute deltas.
Dx == Abs(wp1[1] - wp0[1])

Dy == Abs(wp1[2] - wp0[2])

\* Lines 129-130: the sign of movement.
Sx == IF wp0[1] > wp1[1] THEN -1 ELSE 1

Sy == IF wp0[2] > wp1[2] THEN -1 ELSE 1

\* The loop guard with "and" in place of "or".
LineContinueAnd(a, b) == a < Dx /\ b < Dy

\* Line 145: while ix < dx or iy < dy.
LineContinue(a, b) == a < Dx \/ b < Dy

\* Line 147: (ix + 0.5) / dx < (iy + 0.5) / dy, for dx > 0 and dy > 0, multiplied
\* through by 2 * dx * dy.
Horizontal(a, b) == (2 * a + 1) * Dy < (2 * b + 1) * Dx

\* Lines 135-143: the source is the first cell.
LineStart ==
  /\ pc = "start"
  /\ rl_x' = wp0[1] /\ rl_y' = wp0[2]
  /\ ix' = 0 /\ iy' = 0
  /\ rl_points' = <<wp0>>
  /\ pc' = "loop"
  /\ UNCHANGED <<err, wp0, wp1, smoothVars, pathVars>>

\* Line 147: a zero delta is a division by zero.
LineDivZero ==
  /\ pc = "loop" /\ LineContinue(ix, iy)
  /\ Dx = 0 \/ Dy = 0
  /\ pc' = "error" /\ err' = "ZeroDivisionError"
  /\ UNCHANGED <<lineVars, smoothVars, pathVars>>

\* Lines 146-149, 154: horizontal step.
LineStepX ==
  /\ pc = "loop" /\ LineContinue(ix, iy)
  /\ ~(Dx = 0 \/ Dy = 0)
  /\ Horizontal(ix, iy)
  /\ rl_x' = rl_x + Sx
  /\ ix' = ix + 1
  /\ rl_points' = Append(rl_points, <<rl_x', rl_y>>)
  /\ UNCHANGED <<commonVars, wp0, wp1, rl_y, iy, smoothVars, pathVars>>

\* Lines 150-154: vertical step.
LineStepY ==
  /\ pc = "loop" /\ LineContinue(ix, iy)
  /\ ~(Dx = 0 \/ Dy = 0)
  /\ ~Horizontal(ix, iy)
  /\ rl_y' = rl_y + Sy
  /\ iy' = iy + 1
  /\ rl_points' = Append(rl_points, <<rl_x, rl_y'>>)
  /\ UNCHANGED <<commonVars, wp0, wp1, rl_x, ix, smoothVars, pathVars>>

\* Line 156: return points.
LineReturn ==
  /\ pc = "loop" /\ ~LineContinue(ix, iy)
  /\ pc' = "done"
  /\ UNCHANGED <<err, lineVars, smoothVars, pathVars>>

InitLine ==
  /\ pc = "start" /\ err = "none"
  /\ wp0 \in (0..MaxCoord) \X (0..MaxCoord)
  /\ wp1 \in (0..MaxCoord) \X (0..MaxCoord)
  /\ rl_points = <<>> /\ rl_x = 0 /\ rl_y = 0 /\ ix = 0 /\ iy = 0
  /\ SmoothIdle /\ PathIdle

NextLine ==
  \/ LineStart
  \/ LineDivZero
  \/ LineStepX
  \/ LineStepY
  \/ LineReturn

SpecLine == InitLine /\ [][NextLine]_vars

(***************************************************************************)
(* Properties of smooth_line.                                              *)
(***************************************************************************)
Returned == pc = "done"

\* The 0-based positions of the peak intervals: interval k runs from peak k to peak k+1.
Intervals == 0..(Len(slopes) - 1)

AllDiffsWithin(s, mhd) == \A k \in 1..(Len(s) - 1) : Abs(s[k + 1] - s[k]) <= mhd

\* Every sample of interval k lies on the straight line joining its two peaks.
LinearOn(k) ==
  LET a == At(peak_inds, k)
      b == At(peak_inds, k + 1)
  IN \A m \in a..b :
       (At(points, m) - At(points, a)) * (b - a) = (At(points, b) - At(points, a)) * (m - a)

LinearBetweenPeaks == \A k \in Intervals : LinearOn(k)

\* C1: after smooth_line on a sequence of length >= 2 with max_height_diff > 0, every
\* adjacent pair of the result inside a peak interval whose peak-to-peak slope was
\* steeper than max_height_diff differs by at most max_height_diff.
C1_SlopeBounded ==
  (Returned /\ Len(points) >= 2 /\ max_height_diff > 0) =>
    \A k \in Intervals :
      Abs(At(slopes, k)) > max_height_diff =>
        \A m \in At(peak_inds, k)..(At(peak_inds, k + 1) - 1) :
          Abs(At(new_points, m + 1) - At(new_points, m)) <= max_height_diff

\* C2: smooth_line never lowers a sample: from the copy of line 174 on, after every
\* write of either pass, the working copy has the input's length and is pointwise
\* at least the input.
C2_NeverLowers ==
  pc \in {"peaks", "slopes", "fwd", "bwd", "done"} =>
    /\ Len(new_points) = Len(points)
    /\ \A k \in 1..Len(points) : new_points[k] >= points[k]

C2_Witness ==
  /\ Returned
  /\ \E k \in 1..Len(points) : new_points[k] > points[k]
  /\ \E k \in Intervals : At(slopes, k) < 0
  /\ \E k \in Intervals : At(slopes, k) >= 0

\* C5: smooth_line on fewer than 2 samples is a no-op: it ends in no error and returns
\* its input.
C5_ShortIsNoOp ==
  Len(points) < 2 =>
    /\ pc # "error"
    /\ Returned => new_points = points

\* C8 as stated: when every adjacent difference of an input of length >= 2 is within
\* max_height_diff, smooth_line returns its input.
C8_WithinToleranceUnchanged ==
  (Returned /\ Len(points) >= 2 /\ AllDiffsWithin(points, max_height_diff)) =>
    new_points = points

\* C8 amended: when every adjacent difference of an input of length >= 2 is within
\* max_height_diff and the samples of every peak interval lie on the straight line
\* joining its two peaks, smooth_line returns its input.
C8_LinearWithinToleranceUnchanged ==
  (Returned /\ Len(points) >= 2 /\ AllDiffsWithin(points, max_height_diff)
     /\ LinearBetweenPeaks) =>
    new_points = points

C8_Witness ==
  /\ Returned /\ Len(points) >= 4
  /\ AllDiffsWithin(points, max_height_diff)
  /\ LinearBetweenPeaks
  /\ \E k \in Intervals : At(slopes, k) > 0 /\ At(peak_inds, k + 1) - At(peak_inds, k) >= 2
  /\ \E k \in Intervals : At(slopes, k) < 0 /\ At(peak_inds, k + 1) - At(peak_inds, k) >= 2
  /\ new_points = points

AtFlatStep == pc = "peaks" /\ i < Len(points) - 1 /\ At(points, i) = At(points, i - 1)

AtRiseStep == pc = "peaks" /\ i < Len(points) - 1 /\ At(points, i) > At(points, i - 1)

\* C10 as stated: a flat step at an interior index clears the rising flag and records
\* no peak.
C10_FlatEndsRise ==
  [][AtFlatStep => (going_up' = FALSE /\ peak_inds' = peak_inds /\ peaks' = peaks)]_vars

\* The recorded peaks strictly between the seed and the final sample.
RecordedRises == {peak_inds[k] : k \in 2..(Len(peak_inds) - 1)}

\* Past a recorded peak p, the first interior step that is not flat is a fall.
NoRiseResumesAfter(p) ==
  \A q \in (p + 1)..(Len(points) - 2) :
    At(points, q) > At(points, q - 1) => \E r \in (p + 1)..(q - 1) : At(points, r) # At(points, r - 1)

\* C10 amended: a flat step at an interior index leaves the rising flag as it is and
\* records no peak, so a rise that resumes after a plateau replaces the peak recorded
\* before the plateau: once the peaks are extracted, no recorded rise is followed by
\* a plateau and a further rise.
C10_FlatKeepsRise ==
  /\ [][AtFlatStep => (going_up' = going_up /\ peak_inds' = peak_inds /\ peaks' = peaks)]_vars
  /\ [][(AtRiseStep /\ going_up) =>
         (Len(peak_inds') = Len(peak_inds) /\ Last(peak_inds') = i)]_vars
  /\ [](pc \in {"slopes", "fwd", "bwd", "done"} => \A p \in RecordedRises : NoRiseResumesAfter(p))

(***************************************************************************)
(* Properties of gen_segment and gen_path.                                 *)
(***************************************************************************)

\* The coordinate c is exactly the number v.
IsAt(c, v) == (v - c.b) * c.n >= 0 /\ c.n * c.n = (v - c.b) * (v - c.b) * c.q

\* ceil(seg_dist / PATH_SPACING) for the segment from waypoint w.
CeilSteps(w) ==
  CHOOSE m \in 0..(SpacingDen * (Abs(DeltaX(w)) + Abs(DeltaY(w))) + 1) :
    /\ m * m * SpacingNum * SpacingNum >= SpacingDen * SpacingDen * SegDist2(w)
    /\ m = 0 \/ (m - 1) * (m - 1) * SpacingNum * SpacingNum < SpacingDen * SpacingDen * SegDist2(w)

RECURSIVE Offset(_)
\* The number of points of the segments before segment w.
Offset(w) == IF w = 0 THEN 0 ELSE Offset(w - 1) + CeilSteps(w - 1) + 1

\* C3: for a source and a destination inside the raster gen_segment does not fail and
\* its loop runs at most ceil(L/spacing) times; a returned segment holds exactly
\* ceil(L/spacing)+1 points (one when source = destination), the first at the source
\* and the last exactly the destination.
C3_SegmentCount ==
  /\ pc = "seg_loop" =>
       Len(seg_x) = curr_dist /\ Len(seg_y) = curr_dist /\ curr_dist <= CeilSteps(wi)
  /\ (pc = "error" /\ Len(waypoints) >= 2) =>
       ~(At(waypoints, wi) \in InRaster /\ At(waypoints, wi + 1) \in InRaster)
  /\ (pc \in {"path_loop", "done"} /\ wi >= 1) =>
       /\ Len(seg_x) = CeilSteps(wi - 1) + 1
       /\ Len(seg_y) = CeilSteps(wi - 1) + 1
       /\ Len(seg_z) = CeilSteps(wi - 1) + 1
       /\ IsAt(seg_x[1], SrcX(wi - 1)) /\ IsAt(seg_y[1], SrcY(wi - 1))
       /\ Last(seg_x) = Exact(DestX(wi - 1)) /\ Last(seg_y) = Exact(DestY(wi - 1))

C3_Witness ==
  /\ pc = "path_loop" /\ wi = 2
  /\ waypoints = <<<<0, 0>>, <<1, 1>>, <<1, 1>>>>
  /\ x_points = <<Exact(0), [b |-> 0, n |-> 1, q |-> 8], [b |-> 0, n |-> 2, q |-> 8],
                  Exact(1), Exact(1)>>
  /\ seg_x = <<Exact(1)>>
  /\ seg_z = <<surface_raster[1][1] + HEIGHT_TOL>>

\* C6: a sampled position whose truncated row or column lies outside the raster ends
\* the call in a failure, and no height is recorded for it.
C6_OutOfRangeFails ==
  \A k \in 1..Len(seg_y) :
    (Trunc(seg_x[k]) \notin 0..(RasterW - 1) \/ Trunc(seg_y[k]) \notin 0..(RasterH - 1)) =>
      (pc = "error" /\ k > Len(seg_z))

\* C9: gen_path returns the empty path for fewer than 2 waypoints; otherwise the path
\* is the segments of the consecutive waypoint pairs one after the other, nothing
\* removed: segment w starts at waypoint w and ends at waypoint w+1, so the path
\* starts at the first waypoint, ends at the last, and holds every interior waypoint
\* as two adjacent identical points.
C9_PathIsConcatenation ==
  Returned =>
    IF Len(waypoints) < 2
      THEN x_points = <<>> /\ y_points = <<>> /\ z_points = <<>>
      ELSE /\ Len(x_points) = Offset(Len(waypoints) - 1)
           /\ Len(y_points) = Offset(Len(waypoints) - 1)
           /\ Len(z_points) = Offset(Len(waypoints) - 1)
           /\ \A w \in 0..(Len(waypoints) - 2) :
                /\ IsAt(x_points[Offset(w) + 1], SrcX(w))
                /\ IsAt(y_points[Offset(w) + 1], SrcY(w))
                /\ x_points[Offset(w + 1)] = Exact(DestX(w))
                /\ y_points[Offset(w + 1)] = Exact(DestY(w))
           /\ \A w \in 1..(Len(waypoints) - 2) :
                /\ x_points[Offset(w)] = x_points[Offset(w) + 1]
                /\ y_points[Offset(w)] = y_points[Offset(w) + 1]
                /\ z_points[Offset(w)] = z_points[Offset(w) + 1]

C9_Witness ==
  /\ Returned
  /\ waypoints = <<<<0, 0>>, <<1, 1>>, <<0, 1>>>>
  /\ Len(x_points) = 7
  /\ x_points[4] = Exact(1) /\ x_points[5] = Exact(1)
  /\ y_points[4] = Exact(1) /\ y_points[5] = Exact(1)
  /\ z_points[4] = z_points[5]

(***************************************************************************)
(* Properties of raster_line.                                              *)
(***************************************************************************)

\* The counters after the first k steps of the returned cells.
StepsX(k) == Abs(rl_points[k][1] - wp0[1])

StepsY(k) == Abs(rl_points[k][2] - wp0[2])

\* C4: for dx > 0 and dy > 0 raster_line does not fail, neither counter ever exceeds
\* its delta, every step advances the axis whose fractional progress (ix+0.5)/dx,
\* (iy+0.5)/dy is smaller (the vertical one on a tie), and the returned cells are
\* dx+dy+1 many, from the source to the destination.
C4_LineCells ==
  (Dx > 0 /\ Dy > 0) =>
    /\ pc # "error"
    /\ ix <= Dx /\ iy <= Dy
    /\ pc \in {"loop", "done"} =>
         /\ Len(rl_points) = ix + iy + 1
         /\ rl_points[1] = wp0
         /\ Last(rl_points) = <<rl_x, rl_y>>
         /\ rl_x = wp0[1] + Sx * ix /\ rl_y = wp0[2] + Sy * iy
         /\ \A k \in 1..(Len(rl_points) - 1) :
              IF (2 * StepsX(k) + 1) * Dy < (2 * StepsY(k) + 1) * Dx
                THEN rl_points[k + 1] = <<rl_points[k][1] + Sx, rl_points[k][2]>>
                ELSE rl_points[k + 1] = <<rl_points[k][1], rl_points[k][2] + Sy>>
    /\ Returned =>
         /\ Len(rl_points) = Dx + Dy + 1
         /\ Last(rl_points) = wp1

C4_Witness ==
  /\ Returned
  /\ wp0 = <<0, 0>> /\ wp1 = <<1, 7>>
  /\ Len(rl_points) = 9
  /\ rl_points[1] = <<0, 0>> /\ rl_points[9] = <<1, 7>>

\* C7: with a zero-length axis (and distinct endpoints) raster_line does not fail and
\* returns the dx+dy+1 cells from the source to the destination.
C7_DegenerateAxis ==
  ((Dx = 0 \/ Dy = 0) /\ wp0 # wp1) =>
    /\ pc # "error"
    /\ Returned => (Len(rl_points) = Dx + Dy + 1 /\ rl_points[1] = wp0 /\ Last(rl_points) = wp1)

C10_Witness ==
  /\ pc = "peaks" /\ i = 4
  /\ At(points, 1) > At(points, 0)
  /\ At(points, 2) = At(points, 1)
  /\ At(points, 3) > At(points, 2)
  /\ going_up
  /\ peak_inds = <<0, 3>>

\* The call of scenario 3: smooth_line([0, 3, 0], 1).
Scenario3 == points = <<0, 3 * Unit, 0>> /\ max_height_diff = Unit

\* What C11 says of the peaks, the slopes and the forward pass of scenario 3: peaks at
\* [0, 1, 2], slopes [3, -3], and index 2 raised to 3 - 1 = 2 with nothing else
\* changed when the backward pass starts.
Scenario3Forward ==
  /\ pc \in {"slopes", "fwd", "bwd", "done"} => peak_inds = <<0, 1, 2>>
  /\ pc \in {"fwd", "bwd", "done"} => slopes = <<3 * Unit, (-3) * Unit>>
  /\ (pc = "bwd" /\ i = Len(slopes) - 1 /\ j = -1) => new_points = <<0, 3 * Unit, 2 * Unit>>
  /\ pc \in {"bwd", "done"} => At(new_points, 1) = 3 * Unit /\ At(new_points, 2) = 2 * Unit

\* C11 as stated: on [0, 3, 0] with max_height_diff 1 the peaks are [0, 1, 2], the
\* slopes [3, -3], the forward pass raises index 2 to 2, and the sequence returned is
\* [0, 3, 2].
C11_ReturnsFirstUnchanged ==
  Scenario3 =>
    /\ Scenario3Forward
    /\ Returned => new_points = <<0, 3 * Unit, 2 * Unit>>

\* C11 amended: on [0, 3, 0] with max_height_diff 1 the peaks are [0, 1, 2], the slopes
\* [3, -3], the forward pass raises index 2 to 2, the backward pass then raises index
\* 0 to 3 - 1 = 2, and the sequence returned is [2, 3, 2].
C11_ReturnsFirstRaised ==
  Scenario3 =>
    /\ pc # "error"
    /\ Scenario3Forward
    /\ Returned => new_points = <<2 * Unit, 3 * Unit, 2 * Unit>>

C11_Witness ==
  /\ Scenario3 /\ Returned
  /\ peak_inds = <<0, 1, 2>>
  /\ new_points = <<2 * Unit, 3 * Unit, 2 * Unit>>

====
